---------------------------- MODULE Spec2Model ----------------------------
(***************************************************************************)
(* Model of src/pages/ExploreMap.jsx: the place-discovery pipeline         *)
(* (runSearch: geocode -> Overpass query -> gate/dedup -> score -> sort -> *)
(* cap), the React state it publishes, and the AutoRefresh debounce.       *)
(*                                                                         *)
(* Numbers.  Coordinates lie on one meridian, on a grid whose step is one  *)
(* kilometre of arc, so haversineKm of two points of equal longitude is    *)
(* the absolute difference of their grid latitudes.  A coordinate 0 is the *)
(* JavaScript falsy coordinate (0 or undefined).  Scores are kept in       *)
(* hundredths (3.6 is 360) and published ratings in tenths (3.6 is 36).    *)
(* A tag that is absent is the empty string: the code only ever tests tags *)
(* for truthiness.                                                         *)
(***************************************************************************)
EXTENDS Integers, Sequences, FiniteSets, TLC

VARIABLES
  mounted,      \* the mount effects have run
  query,        \* useState("Paris, France")
  activeCat,    \* useState("restaurants")
  useGems,      \* useState(true)
  radiusKm,     \* useState(6)
  center,       \* useState({lat, lng})
  zoom,         \* useState(12)
  places,       \* useState([])
  selectedId,   \* useState(null)
  loading,      \* useState(false)
  status,       \* useState("")
  first,        \* AutoRefresh: useRef(true)
  timers,       \* pending setTimeout callbacks, each with the time left
  effectTimer,  \* the handle the latest AutoRefresh effect's cleanup clears
  runs,         \* the runSearch invocations in flight, in order of start
  started,      \* number of runSearch invocations so far
  sinceChange,  \* history: milliseconds since the deps last changed
  edits,        \* number of user edits so far
  lastRun       \* history: the invocation that finished last, as it ended

vars == << mounted, query, activeCat, useGems, radiusKm, center, zoom, places,
           selectedId, loading, status, first, timers, effectTimer, runs,
           started, sinceChange, edits, lastRun >>

-----------------------------------------------------------------------------
(* Bounds of the model *)

MaxRuns == 2        \* runSearch invocations in one behaviour
MaxEdits == 2       \* user edits (query text, category, overlay, radius)
TickMs == 175       \* milliseconds that pass in one step of the clock
MaxLen == 3         \* length of an enumerated Overpass response
MaxExtra == 2       \* how far a long Overpass response exceeds the cap

(* Program constants *)

MaxPlaces == 30     \* .slice(0, 30)
DebounceMs == 350   \* setTimeout(() => onRefresh(), 350)
SearchZoom == 12    \* setZoom(12)
FocusZoom == 14     \* setZoom(14)
InitRadiusKm == 6   \* useState(6)

-----------------------------------------------------------------------------
(* Categories and their Overpass selectors *)

CATEGORIES ==
  << [key |-> "restaurants",
      overpass |-> << "node[amenity=restaurant]", "node[amenity=cafe]",
                      "node[amenity=bar]", "node[amenity=fast_food]" >>],
     [key |-> "attractions",
      overpass |-> << "node[tourism=attraction]", "node[tourism=museum]",
                      "node[tourism=gallery]", "node[tourism=zoo]",
                      "node[tourism=theme_park]", "node[tourism=viewpoint]",
                      "node[historic]", "node[leisure=park]" >>],
     [key |-> "hotels",
      overpass |-> << "node[tourism=hotel]", "node[tourism=hostel]",
                      "node[tourism=guest_house]", "node[tourism=motel]" >>],
     [key |-> "safety",
      overpass |-> << "node[amenity=police]", "node[amenity=hospital]",
                      "node[amenity=clinic]", "node[amenity=pharmacy]",
                      "node[amenity=fire_station]" >>],
     [key |-> "transport",
      overpass |-> << "node[railway=station]", "node[railway=subway_entrance]",
                      "node[public_transport=station]",
                      "node[amenity=bus_station]",
                      "node[aeroway=aerodrome]" >>] >>

HIDDEN_GEMS ==
  [key |-> "gems",
   overpass |-> << "node[tourism=artwork]",
                   "node[tourism=information][information=board]",
                   "node[amenity=library]", "node[amenity=community_centre]",
                   "node[leisure=garden]", "node[leisure=escape_game]",
                   "node[amenity=arts_centre]", "node[amenity=studio]",
                   "node[shop=antique]", "node[shop=vintage]",
                   "node[shop=second_hand]", "node[craft]",
                   "node[amenity=music_venue]", "node[amenity=theatre]" >>]

\* const category = useMemo(... CATEGORIES.find(c => c.key === activeCat) || CATEGORIES[0])
category(cat) ==
  IF \E i \in 1..Len(CATEGORIES) : CATEGORIES[i].key = cat
  THEN CATEGORIES[CHOOSE i \in 1..Len(CATEGORIES) :
                    /\ CATEGORIES[i].key = cat
                    /\ \A j \in 1..(i - 1) : CATEGORIES[j].key # cat]
  ELSE CATEGORIES[1]

\* const effectiveSelectors = useMemo(...)
effectiveSelectors(cat, gems) ==
  IF gems THEN category(cat).overpass \o HIDDEN_GEMS.overpass
          ELSE category(cat).overpass

-----------------------------------------------------------------------------
(* Small helpers *)

Min(a, b) == IF a < b THEN a ELSE b
Max(a, b) == IF a > b THEN a ELSE b
Abs(a) == IF a < 0 THEN -a ELSE a

\* function clamp(n, min, max) { return Math.max(min, Math.min(max, n)); }
clamp(n, min, max) == Max(min, Min(max, n))

\* haversineKm(a, b) for two points of one meridian, on the kilometre grid
haversineKm(a, b) == Abs(b.lat - a.lat)

\* Number(rating.toFixed(1)) of a score in hundredths, in tenths.  toFixed
\* rounds the double to the nearest tenth and an exact half upwards.  Of the
\* scores ending in 5 hundredths only those ending in 25 or 75 are exact
\* doubles (3.75); for the others (3.65, 3.85, 3.95, 4.05) the double that
\* lines 374-378 compute lies below the decimal, so they round downwards.
toFixed1(s) ==
  IF s % 10 = 5 /\ s % 50 # 25 THEN s \div 10 ELSE (s + 5) \div 10

-----------------------------------------------------------------------------
(* Raw Overpass elements *)

NoTags ==
  [name |-> "", name_en |-> "", brand |-> "", amenity |-> "", tourism |-> "",
   shop |-> "", leisure |-> "", railway |-> "", public_transport |-> "",
   aeroway |-> "", historic |-> "", website |-> "", contact_website |-> "",
   phone |-> "", contact_phone |-> "", opening_hours |-> "",
   description |-> "", addr_housenumber |-> "", addr_street |-> "",
   addr_city |-> "", addr_postcode |-> "", addr_country |-> "",
   addr_full |-> "", contact_street |-> ""]

\* a tag value is truthy unless absent or empty, a coordinate unless 0
Truthy(v) == v # ""
TruthyNum(n) == n # 0

\* a || b on strings
Or(a, b) == IF Truthy(a) THEN a ELSE b

RECURSIVE FirstTruthy(_)
FirstTruthy(s) ==
  IF s = <<>> THEN "" ELSE Or(Head(s), FirstTruthy(Tail(s)))

\* parts.filter(Boolean).join(" ")
RECURSIVE JoinTruthy(_)
JoinTruthy(s) ==
  IF s = <<>> THEN ""
  ELSE LET rest == JoinTruthy(Tail(s))
       IN  IF ~Truthy(Head(s)) THEN rest
           ELSE IF rest = "" THEN Head(s)
           ELSE Head(s) \o " " \o rest

\* el.tags?.name || el.tags?.["name:en"] || ... || "Unknown Place"
PlaceName(t) ==
  FirstTruthy(<< t.name, t.name_en, t.brand, t.amenity, t.tourism, t.shop,
                 t.leisure, "Unknown Place" >>)

\* a gate that also lets through what has any display name (name:en, brand)
IsSafetyOrTransportName(t) ==
  \/ Truthy(t.name_en)
  \/ Truthy(t.brand)
  \/ t.amenity \in {"police", "hospital", "clinic", "pharmacy", "fire_station"}
  \/ Truthy(t.railway)
  \/ Truthy(t.public_transport)
  \/ Truthy(t.aeroway)

\* const isSafetyOrTransport = ...
isSafetyOrTransport(t) ==
  \/ t.amenity = "police"
  \/ t.amenity = "hospital"
  \/ t.amenity = "clinic"
  \/ t.amenity = "pharmacy"
  \/ t.amenity = "fire_station"
  \/ Truthy(t.railway)
  \/ Truthy(t.public_transport)
  \/ Truthy(t.aeroway)

\* the two `continue`s before the id is formed: no usable coordinate, or
\* neither a name tag nor a safety/transport tag
Skipped(el) ==
  \/ ~TruthyNum(el.lat)
  \/ ~TruthyNum(el.lon)
  \/ (~Truthy(el.tags.name) /\ ~isSafetyOrTransport(el.tags))

\* const id = `${el.type}:${el.id}`
PlaceId(el) == el.type \o ":" \o ToString(el.id)

PlaceKind(t) ==
  FirstTruthy(<< t.amenity, t.tourism, t.shop, t.leisure, t.railway,
                 t.public_transport, t.historic, "place" >>)

PlaceAddress(t) ==
  FirstTruthy(<< JoinTruthy(<< t.addr_housenumber, t.addr_street, t.addr_city,
                               t.addr_postcode, t.addr_country >>),
                 t.addr_full, t.contact_street >>)

PlaceDescription(t) ==
  FirstTruthy(<< t.description, t.tourism, t.amenity, t.shop, t.leisure,
                 t.historic, "Point of interest" >>)

\* the score before rounding, in hundredths: 3.6 + 0.3 + 0.15 + 0.15 - dist * 0.02
RawScore(t, dist) ==
  360 + (IF Truthy(t.website) \/ Truthy(t.contact_website) THEN 30 ELSE 0)
      + (IF Truthy(t.phone) \/ Truthy(t.contact_phone) THEN 15 ELSE 0)
      + (IF Truthy(t.opening_hours) THEN 15 ELSE 0)
      - dist * 2

\* a score clamped from above only
RatingNoFloor(t, dist) == Min(490, RawScore(t, dist))

\* const rating = clamp(..., 3.6, 4.9)
Rating(t, dist) == clamp(RawScore(t, dist), 360, 490)

\* the object handed to unique.set(id, {...})
MakePlace(el, nextCenter) ==
  LET dist == haversineKm(nextCenter, [lat |-> el.lat, lng |-> el.lon])
  IN  [id |-> PlaceId(el),
       name |-> PlaceName(el.tags),
       kind |-> PlaceKind(el.tags),
       lat |-> el.lat,
       lon |-> el.lon,
       address |-> PlaceAddress(el.tags),
       distanceKm |-> dist,
       rating |-> toFixed1(Rating(el.tags, dist)),
       description |-> PlaceDescription(el.tags),
       tags |-> el.tags]

\* unique.has(id), unique being kept as the sequence of its values in
\* insertion order (the order Map.values() yields)
Has(unique, id) == \E i \in 1..Len(unique) : unique[i].id = id

\* a loop body without the unique.has(id) test: Map.set on a present key
\* keeps the key's position and replaces its value
LoopBodyOverwrite(unique, el, nextCenter) ==
  IF Skipped(el) THEN unique
  ELSE IF Has(unique, PlaceId(el))
  THEN [i \in 1..Len(unique) |->
          IF unique[i].id = PlaceId(el) THEN MakePlace(el, nextCenter)
          ELSE unique[i]]
  ELSE Append(unique, MakePlace(el, nextCenter))

\* one iteration of `for (const el of elements)`
LoopBody(unique, el, nextCenter) ==
  IF Skipped(el) THEN unique
  ELSE IF Has(unique, PlaceId(el)) THEN unique
  ELSE Append(unique, MakePlace(el, nextCenter))

\* the Map after the iterations lo..hi of the loop, entered with `unique`.
\* The range is halved and the first half evaluated before the second is
\* entered (TLC evaluates an operand when it is first used), which keeps
\* the evaluation shallow; the iterations run in order all the same.
RECURSIVE LoopRange(_, _, _, _, _)
LoopRange(unique, elements, lo, hi, nextCenter) ==
  IF lo > hi THEN unique
  ELSE IF lo = hi THEN LoopBody(unique, elements[lo], nextCenter)
  ELSE LET mid == (lo + hi) \div 2
           left == LoopRange(unique, elements, lo, mid, nextCenter)
       IN  IF Len(left) >= 0
           THEN LoopRange(left, elements, mid + 1, hi, nextCenter)
           ELSE left

\* const unique = new Map(); for (const el of elements) { ... }
UniqueOf(elements, nextCenter) ==
  LoopRange(<<>>, elements, 1, Len(elements), nextCenter)

\* a comparator that breaks rating ties by distance descending
CompareNearLast(a, b) ==
  IF b.rating - a.rating # 0 THEN b.rating - a.rating
  ELSE b.distanceKm - a.distanceKm

\* (a, b) => b.rating - a.rating || a.distanceKm - b.distanceKm
Compare(a, b) ==
  IF b.rating - a.rating # 0 THEN b.rating - a.rating
  ELSE a.distanceKm - b.distanceKm

\* Array.prototype.sort is a stable sort: p goes before the first element
\* that must follow it
InsertSorted(sorted, p) ==
  LET after == {i \in 1..Len(sorted) : Compare(sorted[i], p) > 0}
      k == IF after = {} THEN Len(sorted) + 1
           ELSE CHOOSE i \in after : \A j \in after : i <= j
  IN  SubSeq(sorted, 1, k - 1) \o << p >> \o SubSeq(sorted, k, Len(sorted))

\* the elements lo..hi of s inserted, in order, into `sorted`
RECURSIVE InsertRange(_, _, _, _)
InsertRange(sorted, s, lo, hi) ==
  IF lo > hi THEN sorted
  ELSE IF lo = hi THEN InsertSorted(sorted, s[lo])
  ELSE LET mid == (lo + hi) \div 2
           left == InsertRange(sorted, s, lo, mid)
       IN  IF Len(left) >= 0 THEN InsertRange(left, s, mid + 1, hi)
           ELSE left

Sort(s) == InsertRange(<<>>, s, 1, Len(s))

\* .slice(0, n)
Slice(s, n) == SubSeq(s, 1, Min(Len(s), n))

\* the cap applied before the sort
SliceThenSort(unique) == Sort(Slice(unique, MaxPlaces))

\* Array.from(unique.values()).sort(...).slice(0, 30)
SortAndCap(unique) == Slice(Sort(unique), MaxPlaces)

\* lines 317-406: the list a successful run publishes
RankList(elements, nextCenter) ==
  SortAndCap(UniqueOf(elements, nextCenter))

-----------------------------------------------------------------------------
(* The inputs of the model: what the user types and picks, what the two     *)
(* services answer                                                          *)

null == "null"

InitQuery == "Paris, France"
Queries == {InitQuery, "xyzzy_nonexistent_place"}
CatInputs == {"restaurants", "safety"}
RadiusInputs == {InitRadiusKm, 20}

InitCenter == [lat |-> 5, lng |-> 1]
\* what geocode resolves to: data[0], its lat and lon parsed by parseFloat
GeoCenters == {InitCenter, [lat |-> 10, lng |-> 1]}

\* e.message of the errors geocode and fetchOverpass throw
GeocodeErrors == {"Geocode failed (500)"}
OverpassErrors == {"Overpass error: 504 Gateway Timeout"}

El(type, id, lat, lon, tags) ==
  [type |-> type, id |-> id, lat |-> lat, lon |-> lon, tags |-> tags]

TCafe ==
  [NoTags EXCEPT !.name = "Le Cafe", !.amenity = "restaurant", !.website = "x"]
TBakery == [NoTags EXCEPT !.shop = "bakery"]
TBrand ==
  [NoTags EXCEPT !.name_en = "Bakery", !.brand = "Paul", !.shop = "bakery"]
TStation == [NoTags EXCEPT !.railway = "station"]
TPolice ==
  [NoTags EXCEPT !.amenity = "police", !.contact_phone = "17",
                 !.opening_hours = "24/7"]
TMuseum ==
  [NoTags EXCEPT !.name = "Musee", !.tourism = "museum",
                 !.contact_website = "m", !.phone = "1",
                 !.opening_hours = "Mo-Su", !.addr_street = "Rue A",
                 !.addr_city = "Paris"]
TKiosk == [NoTags EXCEPT !.name = "Kiosk", !.shop = "kiosk", !.phone = "2"]
TPark == [NoTags EXCEPT !.name = "Parc", !.leisure = "park"]
THotel ==
  [NoTags EXCEPT !.name = "Hotel", !.tourism = "hotel", !.website = "h",
                 !.contact_phone = "3", !.addr_full = "1 Rue B"]

\* raw elements: duplicates of one (type, id) with differing tags, elements
\* without a coordinate, unnamed ones inside and outside the gate, one far
\* enough to fall under the floor of the score
RawElements ==
  { El("node", 1, 5, 1, TCafe),
    El("node", 1, 5, 1, TBakery),
    El("node", 1, 10, 1, TPolice),
    El("node", 2, 10, 1, TStation),
    El("node", 2, 0, 1, TCafe),
    El("way", 1, 5, 1, TBrand),
    El("way", 1, 5, 0, TMuseum),
    El("way", 1, 10, 1, TMuseum),
    El("node", 3, 5, 1, TKiosk),
    El("node", 4, 10, 1, TPark),
    El("node", 5, 10, 1, THotel),
    El("node", 6, 40, 1, TMuseum),
    El("way", 2, 15, 1, TKiosk) }

SeqsUpTo(S, n) == UNION {[1..k -> S] : k \in 0..n}

\* a response longer than the cap: n distinct named nodes, the richer tags
\* on the later ones
LongResponse(n) ==
  [i \in 1..n |->
     El("node", 100 + i, 5 + (i % 4), 1,
        IF i % 3 = 0 THEN TMuseum ELSE IF i % 3 = 1 THEN TPark ELSE TKiosk)]

LongResponses ==
  {LongResponse(n) : n \in (MaxPlaces - 1)..(MaxPlaces + MaxExtra)}

\* the responses the ranking is checked on
RankInputs == SeqsUpTo(RawElements, MaxLen) \cup LongResponses

\* the answers of the two services in the concurrent model
SpecCenters == {[lat |-> 10, lng |-> 1]}
Responses ==
  { <<>>,
    << El("node", 1, 10, 1, TBakery), El("node", 1, 10, 1, TCafe) >> }

-----------------------------------------------------------------------------
(* Status strings (the ellipsis character is written as three dots) *)

StatusSearching == "Searching location..."
StatusNoResults == "No results. Try: City, State, Country"
StatusFinding == "Finding places..."
StatusNoPlaces == "No places found in this radius."
StatusFound(n) == "Found " \o ToString(n) \o " places"
StatusError(msg) == "Error: " \o msg

\* list.length ? `Found ${list.length} places` : "No places found in this radius."
StatusOf(list) == IF Len(list) # 0 THEN StatusFound(Len(list)) ELSE StatusNoPlaces

-----------------------------------------------------------------------------
(* Initial state: the first render, before its effects *)

\* what the runSearch of the current render closes over
Closure ==
  [query |-> query, radiusKm |-> radiusKm,
   selectors |-> effectiveSelectors(activeCat, useGems)]

\* an invocation that has ended, as lastRun keeps it: how it ended, its
\* nextCenter, the elements it fetched, the list it published and the
\* number of its geocode and Overpass calls
Ended(run, outcome, elements, list) ==
  [outcome |-> outcome, nextCenter |-> run.nextCenter, elements |-> elements,
   list |-> list, geoCalls |-> run.geoCalls, poiCalls |-> run.poiCalls]

\* lastRun before any invocation has finished
NoRun ==
  [outcome |-> "none", nextCenter |-> InitCenter, elements |-> <<>>,
   list |-> <<>>, geoCalls |-> 0, poiCalls |-> 0]

Init ==
  /\ mounted = FALSE
  /\ query = InitQuery
  /\ activeCat = "restaurants"
  /\ useGems = TRUE
  /\ radiusKm = InitRadiusKm
  /\ center = InitCenter
  /\ zoom = SearchZoom
  /\ places = <<>>
  /\ selectedId = null
  /\ loading = FALSE
  /\ status = ""
  /\ first = TRUE
  /\ timers = {}
  /\ effectTimer = {}
  /\ runs = <<>>
  /\ started = 0
  /\ sinceChange = DebounceMs
  /\ edits = 0
  /\ lastRun = NoRun

NoArg == [lat |-> 0, lon |-> 0, radiusM |-> 0, selectors |-> <<>>]

\* one invocation of runSearch: where it stands (pc), what it closes over,
\* its local nextCenter, and as history what a closure taken at its start
\* would hold (atStart) and the arguments and number of its two calls
NewRun(kind, cl) ==
  [kind |-> kind, pc |-> "geocode", closure |-> cl, atStart |-> Closure,
   geoArg |-> cl.query, geoCalls |-> 1, poiArg |-> NoArg, poiCalls |-> 0,
   nextCenter |-> InitCenter]

\* runSearch up to its first await: the four setters, then geocode(query)
StartRun(kind, cl) ==
  /\ started < MaxRuns
  /\ started' = started + 1
  /\ loading' = TRUE
  /\ status' = StatusSearching
  /\ selectedId' = null
  /\ places' = <<>>
  /\ runs' = Append(runs, NewRun(kind, cl))

Remove(s, i) == SubSeq(s, 1, i - 1) \o SubSeq(s, i + 1, Len(s))

-----------------------------------------------------------------------------
(* AutoRefresh *)

\* an effect whose cleanup clears nothing
KeepTimeout(ts, hs) == ts

\* return () => clearTimeout(t), run before the next effect; hs holds the
\* handle t, or nothing when the effect before set no timer
ClearTimeout(ts, hs) == {t \in ts : t.id \notin hs}

\* the effect of AutoRefresh, run after a render whose deps changed; cl is
\* what that render's runSearch closes over, h a fresh timer handle
AutoRefreshEffect(cl, h) ==
  /\ sinceChange' = 0
  /\ IF first
     THEN /\ first' = FALSE
          /\ UNCHANGED << timers, effectTimer >>
     ELSE /\ timers' = ClearTimeout(timers, effectTimer)
                         \cup {[id |-> h, left |-> DebounceMs, closure |-> cl]}
          /\ effectTimer' = {h}
          /\ UNCHANGED first

-----------------------------------------------------------------------------
(* Actions *)

\* the effects of the first render: AutoRefresh's (the child's) first, then
\* useEffect(() => { runSearch(); }, [])
Mount ==
  /\ ~mounted
  /\ mounted' = TRUE
  /\ first' = FALSE
  /\ StartRun("mount", Closure)
  /\ UNCHANGED << query, activeCat, useGems, radiusKm, center, zoom, timers,
                  effectTimer, sinceChange, edits, lastRun >>

\* onChange={(e) => setQuery(e.target.value)}
SetQuery(q) ==
  /\ mounted
  /\ edits < MaxEdits
  /\ q # query
  /\ query' = q
  /\ edits' = edits + 1
  /\ UNCHANGED << started, mounted, activeCat, useGems, radiusKm, center,
                  zoom, places, selectedId, loading, status, first, timers,
                  effectTimer, runs, sinceChange, lastRun >>

\* onClick={() => setActiveCat(c.key)}
SetActiveCat(c) ==
  /\ mounted
  /\ edits < MaxEdits
  /\ c # activeCat
  /\ activeCat' = c
  /\ edits' = edits + 1
  /\ AutoRefreshEffect([Closure EXCEPT
                          !.selectors = effectiveSelectors(c, useGems)],
                       edits + 1)
  /\ UNCHANGED << started, mounted, query, useGems, radiusKm, center, zoom,
                  places, selectedId, loading, status, runs, lastRun >>

\* onChange={(e) => setUseGems(e.target.checked)}
SetUseGems(b) ==
  /\ mounted
  /\ edits < MaxEdits
  /\ b # useGems
  /\ useGems' = b
  /\ edits' = edits + 1
  /\ AutoRefreshEffect([Closure EXCEPT
                          !.selectors = effectiveSelectors(activeCat, b)],
                       edits + 1)
  /\ UNCHANGED << started, mounted, query, activeCat, radiusKm, center, zoom,
                  places, selectedId, loading, status, runs, lastRun >>

\* onChange={(e) => setRadiusKm(Number(e.target.value))}
SetRadiusKm(km) ==
  /\ mounted
  /\ edits < MaxEdits
  /\ km # radiusKm
  /\ radiusKm' = km
  /\ edits' = edits + 1
  /\ AutoRefreshEffect([Closure EXCEPT !.radiusKm = km], edits + 1)
  /\ UNCHANGED << started, mounted, query, activeCat, useGems, center, zoom,
                  places, selectedId, loading, status, runs, lastRun >>

\* onKeyDown: if (e.key === "Enter") runSearch()
PressEnter ==
  /\ mounted
  /\ StartRun("user", Closure)
  /\ UNCHANGED << mounted, query, activeCat, useGems, radiusKm, center, zoom,
                  first, timers, effectTimer, sinceChange, edits, lastRun >>

\* the Search and the Refresh button: onClick={runSearch} disabled={loading}
ClickSearch ==
  /\ mounted
  /\ ~loading
  /\ StartRun("user", Closure)
  /\ UNCHANGED << mounted, query, activeCat, useGems, radiusKm, center, zoom,
                  first, timers, effectTimer, sinceChange, edits, lastRun >>

\* the setTimeout callback: () => onRefresh(), onRefresh being the runSearch
\* of the render that scheduled it
TimerFires(t) ==
  /\ t \in timers
  /\ t.left = 0
  /\ timers' = timers \ {t}
  /\ StartRun("timer", t.closure)
  /\ UNCHANGED << mounted, query, activeCat, useGems, radiusKm, center, zoom,
                  first, effectTimer, sinceChange, edits, lastRun >>

\* TickMs milliseconds pass
Tick ==
  /\ sinceChange < DebounceMs \/ \E t \in timers : t.left > 0
  /\ sinceChange' = Min(DebounceMs, sinceChange + TickMs)
  /\ timers' = {[t EXCEPT !.left = Max(0, @ - TickMs)] : t \in timers}
  /\ UNCHANGED << mounted, started, query, activeCat, useGems, radiusKm,
                  center, zoom, places, selectedId, loading, status, first,
                  effectTimer, runs, edits, lastRun >>

\* the run ends: finally { setLoading(false) }
Finish(r, outcome) ==
  /\ runs' = Remove(runs, r)
  /\ lastRun' = Ended(runs[r], outcome, <<>>, <<>>)
  /\ loading' = FALSE

\* a run that asks the geocoder again when it finds nothing
GeocodeNotFoundRetry(r) ==
  /\ r \in 1..Len(runs)
  /\ runs[r].pc = "geocode"
  /\ runs[r].geoCalls < 2
  /\ runs' = [runs EXCEPT ![r].geoCalls = @ + 1]
  /\ UNCHANGED << started, mounted, query, activeCat, useGems, radiusKm,
                  center, zoom, places, selectedId, loading, status, first,
                  timers, effectTimer, sinceChange, edits, lastRun >>

\* geocode resolves to null: if (!geo) { setStatus(...); setLoading(false); return; }
GeocodeNotFound(r) ==
  /\ r \in 1..Len(runs)
  /\ runs[r].pc = "geocode"
  /\ status' = StatusNoResults
  /\ Finish(r, "notfound")
  /\ UNCHANGED << started, mounted, query, activeCat, useGems, radiusKm,
                  center, zoom, places, selectedId, first, timers,
                  effectTimer, sinceChange, edits >>

\* geocode throws: catch (e) { setStatus(`Error: ${e.message}`) }
GeocodeFails(r, msg) ==
  /\ r \in 1..Len(runs)
  /\ runs[r].pc = "geocode"
  /\ status' = StatusError(msg)
  /\ Finish(r, "error")
  /\ UNCHANGED << started, mounted, query, activeCat, useGems, radiusKm,
                  center, zoom, places, selectedId, first, timers,
                  effectTimer, sinceChange, edits >>

\* geocode resolves to a result: lines 303-315, up to the second await
GeocodeOk(r, c) ==
  /\ r \in 1..Len(runs)
  /\ runs[r].pc = "geocode"
  /\ center' = c
  /\ zoom' = SearchZoom
  /\ status' = StatusFinding
  /\ runs' = [runs EXCEPT
       ![r].pc = "overpass",
       ![r].nextCenter = c,
       ![r].poiArg = [lat |-> c.lat, lon |-> c.lng,
                      radiusM |-> runs[r].closure.radiusKm * 1000,
                      selectors |-> runs[r].closure.selectors],
       ![r].poiCalls = @ + 1]
  /\ UNCHANGED << started, mounted, query, activeCat, useGems, radiusKm,
                  places, selectedId, loading, first, timers, effectTimer,
                  sinceChange, edits, lastRun >>

\* fetchOverpass throws
OverpassFails(r, msg) ==
  /\ r \in 1..Len(runs)
  /\ runs[r].pc = "overpass"
  /\ status' = StatusError(msg)
  /\ Finish(r, "error")
  /\ UNCHANGED << started, mounted, query, activeCat, useGems, radiusKm,
                  center, zoom, places, selectedId, first, timers,
                  effectTimer, sinceChange, edits >>

\* fetchOverpass resolves: lines 317-409, then finally
OverpassOk(r, elements) ==
  /\ r \in 1..Len(runs)
  /\ runs[r].pc = "overpass"
  /\ LET list == RankList(elements, runs[r].nextCenter)
     IN  /\ places' = list
         /\ status' = StatusOf(list)
         /\ runs' = Remove(runs, r)
         /\ lastRun' = Ended(runs[r], "ok", elements, list)
  /\ loading' = FALSE
  /\ UNCHANGED << mounted, query, activeCat, useGems, radiusKm, center, zoom,
                  selectedId, first, timers, effectTimer, started,
                  sinceChange, edits >>

\* function focusPlace(p), from a click on a row of the list
focusPlace(i) ==
  /\ i \in 1..Len(places)
  /\ selectedId' = places[i].id
  /\ center' = [lat |-> places[i].lat, lng |-> places[i].lon]
  /\ zoom' = FocusZoom
  /\ UNCHANGED << started, mounted, query, activeCat, useGems, radiusKm,
                  places, loading, status, first, timers, effectTimer, runs,
                  sinceChange, edits, lastRun >>

\* a marker's click: () => setSelectedId(p.id)
MarkerClick(i) ==
  /\ i \in 1..Len(places)
  /\ selectedId' = places[i].id
  /\ UNCHANGED << started, mounted, query, activeCat, useGems, radiusKm,
                  center, zoom, places, loading, status, first, timers,
                  effectTimer, runs, sinceChange, edits, lastRun >>

Next ==
  \/ Mount
  \/ \E q \in Queries : SetQuery(q)
  \/ \E c \in CatInputs : SetActiveCat(c)
  \/ \E b \in BOOLEAN : SetUseGems(b)
  \/ \E km \in RadiusInputs : SetRadiusKm(km)
  \/ PressEnter
  \/ ClickSearch
  \/ \E t \in timers : TimerFires(t)
  \/ Tick
  \/ \E r \in 1..Len(runs) : GeocodeNotFound(r)
  \/ \E r \in 1..Len(runs), msg \in GeocodeErrors : GeocodeFails(r, msg)
  \/ \E r \in 1..Len(runs), c \in SpecCenters : GeocodeOk(r, c)
  \/ \E r \in 1..Len(runs), msg \in OverpassErrors : OverpassFails(r, msg)
  \/ \E r \in 1..Len(runs), els \in Responses : OverpassOk(r, els)
  \/ \E i \in 1..Len(places) : focusPlace(i)
  \/ \E i \in 1..Len(places) : MarkerClick(i)

Spec == Init /\ [][Next]_vars

\* one run of the pipeline, on every response the ranking is checked on
NextRank ==
  \/ Mount
  \/ \E r \in 1..Len(runs), c \in GeoCenters : GeocodeOk(r, c)
  \/ \E r \in 1..Len(runs), els \in RankInputs : OverpassOk(r, els)

SpecRank == Init /\ [][NextRank]_vars

-----------------------------------------------------------------------------
(* Vocabulary of the properties of the ranking.  They speak of the run     *)
(* that finished last and of the list on display, and restate the gate and *)
(* the score in their own words.                                           *)

Published == lastRun.outcome = "ok"

Ids(list) == {list[k].id : k \in 1..Len(list)}

NoSharedId(list) ==
  \A i, j \in 1..Len(list) : list[i].id = list[j].id => i = j

HasCoordinates(el) == el.lat # 0 /\ el.lon # 0

AlwaysRelevant(t) ==
  \/ t.amenity \in {"police", "hospital", "clinic", "pharmacy", "fire_station"}
  \/ t.railway # ""
  \/ t.public_transport # ""
  \/ t.aeroway # ""

\* the normalizer turns el into a Place
Normalizes(el) ==
  HasCoordinates(el) /\ (el.tags.name # "" \/ AlwaysRelevant(el.tags))

\* the place p is built from the raw record el
BuiltFrom(p, el) ==
  /\ p.id = el.type \o ":" \o ToString(el.id)
  /\ p.tags = el.tags
  /\ p.lat = el.lat
  /\ p.lon = el.lon

SameKey(a, b) == a.type = b.type /\ a.id = b.id

\* index of the first record of els with the (type, id) of els[i]
FirstSeen(els, i) ==
  CHOOSE k \in 1..i :
    /\ SameKey(els[k], els[i])
    /\ \A j \in 1..(k - 1) : ~SameKey(els[j], els[i])

\* els[i] is the first record of its (type, id) that the normalizer keeps
FirstKept(els, i) ==
  /\ Normalizes(els[i])
  /\ \A j \in 1..(i - 1) : SameKey(els[j], els[i]) => ~Normalizes(els[j])

\* the index in els of the record the place p is built from, p's key having
\* a record that the normalizer keeps
SourceIndex(els, p) ==
  CHOOSE i \in 1..Len(els) :
    p.id = els[i].type \o ":" \o ToString(els[i].id) /\ FirstKept(els, i)

C7_InclusionGate ==
  Published =>
    \A i \in 1..Len(lastRun.elements) :
      LET el == lastRun.elements[i]
      IN  /\ (el.tags.name = "" /\ ~AlwaysRelevant(el.tags)) =>
               \A k \in 1..Len(places) : ~BuiltFrom(places[k], el)
          /\ ~HasCoordinates(el) =>
               \A k \in 1..Len(places) : ~BuiltFrom(places[k], el)
          /\ (el.tags.name = "" /\ AlwaysRelevant(el.tags)
                /\ HasCoordinates(el) /\ Len(places) < MaxPlaces) =>
               PlaceId(el) \in Ids(places)

\* an unnamed station is published as "Unknown Place" while a record with
\* name:en and brand but no name, of another key, is left out
C7_Witness ==
  /\ Published
  /\ \E k \in 1..Len(places) :
       places[k].tags.name = "" /\ places[k].name = "Unknown Place"
  /\ \E i \in 1..Len(lastRun.elements) :
       /\ lastRun.elements[i].tags.name = ""
       /\ lastRun.elements[i].tags.name_en # ""
       /\ HasCoordinates(lastRun.elements[i])
       /\ PlaceId(lastRun.elements[i]) \notin Ids(places)

\* p1 may stand before p2: higher rating, or equal rating and not farther
InOrder(p1, p2) ==
  \/ p1.rating > p2.rating
  \/ (p1.rating = p2.rating /\ p1.distanceKm <= p2.distanceKm)

\* C8: every adjacent pair of the published list is in order (rating
\* descending, then distance ascending), and places equal in rating and
\* distance stand in the order of their first appearance in the input.
C8_SortOrder ==
  Published =>
    /\ \A k \in 1..(Len(places) - 1) : InOrder(places[k], places[k + 1])
    /\ \A k, l \in 1..Len(places) :
         (/\ k < l
          /\ places[k].rating = places[l].rating
          /\ places[k].distanceKm = places[l].distanceKm) =>
           SourceIndex(lastRun.elements, places[k])
             < SourceIndex(lastRun.elements, places[l])

\* a list of three: the record that came last in the input stands first,
\* two places share a rating at different distances, and two are equal in
\* rating and distance
C8_Witness ==
  /\ Published
  /\ Len(places) = 3
  /\ SourceIndex(lastRun.elements, places[1]) = 3
  /\ \E k, l \in 1..3 :
       /\ places[k].rating = places[l].rating
       /\ places[k].distanceKm < places[l].distanceKm
  /\ \E k, l \in 1..3 :
       /\ k # l
       /\ places[k].rating = places[l].rating
       /\ places[k].distanceKm = places[l].distanceKm

\* a must stand before b: higher rating, or equal rating and nearer
RanksBefore(a, b) ==
  \/ a.rating > b.rating
  \/ (a.rating = b.rating /\ a.distanceKm < b.distanceKm)

\* C9: the list on display never has more than 30 entries, and a place that
\* was dropped by the cap ranks before no place that was kept.
C9_Cap ==
  /\ Len(places) <= MaxPlaces
  /\ Published =>
       \A i \in 1..Len(lastRun.elements) :
         (/\ FirstKept(lastRun.elements, i)
          /\ PlaceId(lastRun.elements[i]) \notin Ids(places)) =>
           /\ Len(places) = MaxPlaces
           /\ \A k \in 1..Len(places) :
                ~RanksBefore(MakePlace(lastRun.elements[i],
                                       lastRun.nextCenter), places[k])

\* more than 30 distinct places were fetched, 30 are on display, and one of
\* the first 30 fetched was dropped for a later one
C9_Witness ==
  /\ Published
  /\ Len(lastRun.elements) > MaxPlaces
  /\ Len(places) = MaxPlaces
  /\ \E i \in 1..MaxPlaces :
       /\ FirstKept(lastRun.elements, i)
       /\ PlaceId(lastRun.elements[i]) \notin Ids(places)
  /\ \E i \in (MaxPlaces + 1)..Len(lastRun.elements) :
       PlaceId(lastRun.elements[i]) \in Ids(places)

Present(v) == IF v # "" THEN 1 ELSE 0
Either(v, w) == IF v # "" \/ w # "" THEN 1 ELSE 0

\* 3.6 + 0.3 + 0.15 + 0.15 - 0.02 * distanceKm of a place, in hundredths,
\* clamped to [3.6, 4.9]
ClampedScore(p) ==
  LET raw == 360 + 30 * Either(p.tags.website, p.tags.contact_website)
                 + 15 * Either(p.tags.phone, p.tags.contact_phone)
                 + 15 * Present(p.tags.opening_hours)
                 - 2 * p.distanceKm
  IN  IF raw < 360 THEN 360 ELSE IF raw > 490 THEN 490 ELSE raw

\* C10: the rating of every published place (in tenths) lies in [3.6, 4.9]
\* and is a tenth nearest to its clamped score.
C10_RatingBounds ==
  Published =>
    \A k \in 1..Len(places) :
      /\ 36 <= places[k].rating
      /\ places[k].rating <= 49
      /\ 10 * places[k].rating - ClampedScore(places[k]) <= 5
      /\ ClampedScore(places[k]) - 10 * places[k].rating <= 5

\* one place so far that its score falls under the floor, one whose score
\* lies halfway between two tenths, one that has all three bonuses
C10_Witness ==
  /\ Published
  /\ \E k \in 1..Len(places) :
       /\ 420 - 2 * places[k].distanceKm < 360
       /\ places[k].rating = 36
  /\ \E k \in 1..Len(places) : ClampedScore(places[k]) % 10 = 5
  /\ \E k \in 1..Len(places) : places[k].rating > 40

-----------------------------------------------------------------------------
(* Vocabulary of the properties of the orchestration *)

NoneInFlight == runs = <<>>

Failed(outcome) == outcome \in {"notfound", "error"}

\* a step in which an invocation ends
RunEnds == Len(runs') < Len(runs)

\* a step in which an invocation starts
RunStarts == started' > started

FailureStatuses ==
  {StatusNoResults} \cup {StatusError(m) : m \in GeocodeErrors \cup OverpassErrors}

TransientStatuses == {StatusSearching, StatusFinding}

DepsChange ==
  activeCat' # activeCat \/ useGems' # useGems \/ radiusKm' # radiusKm

TimerIds(ts) == {t.id : t \in ts}

\* C2 (as claimed): once no run is in flight, the list on display is the
\* result of the run that finished last: its ranked list if it succeeded,
\* the empty list if it failed.
C2_LatestCompletedRun ==
  (NoneInFlight /\ lastRun.outcome # "none") =>
    places = (IF lastRun.outcome = "ok" THEN lastRun.list ELSE <<>>)

\* C3 (as claimed): whenever a run ends in failure, at that moment the list
\* on display is empty and the status is the no-results hint or an error
\* message.
C3_FailureClearsList ==
  [][(RunEnds /\ Failed(lastRun'.outcome)) =>
       (places' = <<>> /\ status' \in FailureStatuses)]_vars

\* C4: mounting schedules no debounced run; every change of category,
\* overlay or radius leaves exactly one pending timer, a fresh one due in
\* 350 ms; nothing else schedules one, so at most one is ever pending; and
\* a debounced run starts only 350 ms or more after the last change and
\* leaves no timer pending, so a burst of changes starts at most one run.
C4_Debounce ==
  /\ [](Cardinality(timers) <= 1)
  /\ [][/\ (~mounted /\ mounted') => timers' = {}
        /\ DepsChange =>
             /\ Cardinality(timers') = 1
             /\ \A t \in timers' :
                  t.left = DebounceMs /\ t.id \notin TimerIds(timers)
        /\ ~DepsChange => TimerIds(timers') \subseteq TimerIds(timers)
        /\ (RunStarts /\ runs'[Len(runs')].kind = "timer") =>
             /\ sinceChange >= DebounceMs
             /\ timers' = {}
             /\ Cardinality(timers) = 1 ]_vars

\* two changes (category and radius) were made and exactly one debounced
\* run, the only run besides the mount's, has started: the second change
\* cancelled the timer of the first
C4_Witness ==
  /\ activeCat # "restaurants"
  /\ radiusKm # InitRadiusKm
  /\ started = 2
  /\ \E r \in 1..Len(runs) : runs[r].kind = "timer"
  /\ timers = {}

\* C5 (as claimed): every run geocodes the query text and queries with the
\* selectors and the radius that are current when it starts.
C5_CurrentInputs ==
  \A r \in 1..Len(runs) :
    /\ runs[r].geoArg = runs[r].atStart.query
    /\ runs[r].pc = "overpass" =>
         /\ runs[r].poiArg.selectors = runs[r].atStart.selectors
         /\ runs[r].poiArg.radiusM = runs[r].atStart.radiusKm * 1000

\* C6: a run makes at most one geocode call and at most one Overpass call,
\* the Overpass call only after its geocode succeeded; a run that fails
\* ends with a failure status on display and the loading flag cleared; and
\* once no run is in flight the status is not one of the transient ones.
C6_ErrorsContained ==
  /\ [](/\ \A r \in 1..Len(runs) :
             /\ runs[r].geoCalls = 1
             /\ runs[r].poiCalls = (IF runs[r].pc = "overpass" THEN 1 ELSE 0)
        /\ lastRun.geoCalls <= 1
        /\ lastRun.poiCalls <= 1
        /\ lastRun.outcome = "notfound" => lastRun.poiCalls = 0
        /\ NoneInFlight => status \notin TransientStatuses)
  /\ [][(RunEnds /\ Failed(lastRun'.outcome)) =>
          /\ status' \in FailureStatuses
          /\ loading' = FALSE
          /\ lastRun'.geoCalls = 1
          /\ lastRun'.poiCalls <= 1 ]_vars

\* two runs have started and none is in flight; the one that ended last
\* failed in its Overpass call after a successful geocode
C6_Witness ==
  /\ NoneInFlight
  /\ started = 2
  /\ lastRun.outcome = "error"
  /\ lastRun.poiCalls = 1
  /\ status \in FailureStatuses
  /\ ~loading

\* C11 (as claimed): the loading flag is true whenever at least one run has
\* started and not yet finished, and false when none is in flight.
C11_LoadingTracksRuns == loading <=> ~NoneInFlight

\* C12 (as claimed): selectedId is null or the id of a place of the list on
\* display.
C12_SelectionValid == selectedId = null \/ selectedId \in Ids(places)

=============================================================================
